---------------------------- MODULE Spec2Model ----------------------------
(***************************************************************************)
(* Resume Analyzer (role aware): the fit scorer analyse_resume_st, the     *)
(* role/skill directory and score cache of db_mysql.py, and the two upload *)
(* handlers (Flask index, Streamlit Analyse flow) that call them.          *)
(*                                                                         *)
(* Texts are sequences of one-character strings.  Scores are integers in   *)
(* hundredths (69.12 is 6912); a similarity is an integer in millionths.   *)
(***************************************************************************)
EXTENDS Integers, Sequences, FiniteSets, TLC

(***************************************************************************)
(* Characters.                                                             *)
(***************************************************************************)
UpperCase == <<"A","B","C","D","E","F","G","H","I","J","K","L","M",
               "N","O","P","Q","R","S","T","U","V","W","X","Y","Z">>
LowerCase == <<"a","b","c","d","e","f","g","h","i","j","k","l","m",
               "n","o","p","q","r","s","t","u","v","w","x","y","z">>
Digits == <<"0","1","2","3","4","5","6","7","8","9">>

\* the characters of the modelled texts, in code-point order (str ordering)
AsciiOrder == <<"\t", "\n", " ", "#", "(", ")", "+", ",", "-", ".">> \o Digits
              \o <<":", ";">> \o UpperCase \o LowerCase

Range(s) == {s[i] : i \in DOMAIN s}

CharCode(c) == CHOOSE i \in DOMAIN AsciiOrder : AsciiOrder[i] = c

\* str.lower() on one character
Lower(c) ==
    IF c \in Range(UpperCase)
    THEN LowerCase[CHOOSE i \in DOMAIN UpperCase : UpperCase[i] = c]
    ELSE c

\* \s of the regular expressions
IsSpace(c) == c \in {" ", "\t", "\n"}

\* the class [•...-] of extract_tokens, on the modelled characters
IsBullet(c) == c = "-"

\* the class [a-z0-9+#.] of extract_tokens
IsTokenChar(c) == c \in Range(LowerCase) \cup Range(Digits) \cup {"+", "#", "."}

\* the argument of w.strip(...) in extract_tokens
StripChars == {".", ",", "(", ")", "[", "]", "{", "}", ":", ";", "\"", "'"}

(***************************************************************************)
(* String helpers on character sequences.                                  *)
(***************************************************************************)
\* re.sub(cls+, " ", t): every maximal run of characters of the class
\* becomes one space
InClass(cls, c) == IF cls = "\\s" THEN IsSpace(c) ELSE IsBullet(c)

RECURSIVE SubRuns(_, _, _)
SubRuns(cls, t, inRun) ==
    IF t = <<>> THEN <<>>
    ELSE IF InClass(cls, Head(t))
         THEN (IF inRun THEN <<>> ELSE <<" ">>) \o SubRuns(cls, Tail(t), TRUE)
         ELSE <<Head(t)>> \o SubRuns(cls, Tail(t), FALSE)

RECURSIVE LStrip(_, _)
LStrip(t, chars) ==
    IF t # <<>> /\ Head(t) \in chars THEN LStrip(Tail(t), chars) ELSE t

RECURSIVE RStrip(_, _)
RStrip(t, chars) ==
    IF t # <<>> /\ t[Len(t)] \in chars
    THEN RStrip(SubSeq(t, 1, Len(t) - 1), chars) ELSE t

\* str.strip(chars)
Strip(t, chars) == RStrip(LStrip(t, chars), chars)

\* str.strip() with no argument
StripSpace(t) == Strip(t, {" ", "\t", "\n"})

LowerText(t) == [i \in DOMAIN t |-> Lower(t[i])]

StartsWith(t, pat) == Len(t) >= Len(pat) /\ SubSeq(t, 1, Len(pat)) = pat

\* str.replace(pat, rep): left to right, non-overlapping
RECURSIVE Replace(_, _, _)
Replace(t, pat, rep) ==
    IF t = <<>> THEN <<>>
    ELSE IF StartsWith(t, pat)
         THEN rep \o Replace(SubSeq(t, Len(pat) + 1, Len(t)), pat, rep)
         ELSE <<Head(t)>> \o Replace(Tail(t), pat, rep)

\* re.split(r"[^a-z0-9+#.]+", t): the fragments between the separator runs,
\* the empty fragments at either end included
RECURSIVE SplitAcc(_, _, _)
SplitAcc(t, cur, inSep) ==
    IF t = <<>> THEN <<cur>>
    ELSE IF IsTokenChar(Head(t))
         THEN SplitAcc(Tail(t), Append(cur, Head(t)), FALSE)
         ELSE IF inSep THEN SplitAcc(Tail(t), cur, TRUE)
              ELSE <<cur>> \o SplitAcc(Tail(t), <<>>, TRUE)

Split(t) == SplitAcc(t, <<>>, FALSE)

\* str < str: lexicographic on code points
RECURSIVE StrLess(_, _)
StrLess(a, b) ==
    IF b = <<>> THEN FALSE
    ELSE IF a = <<>> THEN TRUE
    ELSE IF Head(a) = Head(b) THEN StrLess(Tail(a), Tail(b))
    ELSE CharCode(Head(a)) < CharCode(Head(b))

\* sorted(list(S))
RECURSIVE Sorted(_)
Sorted(S) ==
    IF S = {} THEN <<>>
    ELSE LET m == CHOOSE x \in S : \A y \in S \ {x} : StrLess(x, y)
         IN <<m>> \o Sorted(S \ {m})

(***************************************************************************)
(* analyse_pdf.py: text normaliser and presence score.                     *)
(***************************************************************************)
MODEL_VERSION == "st-role-aware-v1"

DefaultRole == "Software Developer (Generic)"

STOPWORDS ==
    { <<"t","h","e">>, <<"a","n","d">>, <<"w","i","t","h">>, <<"f","o","r">>,
      <<"t","h","a","t">>, <<"t","h","i","s">>, <<"h","a","v","e">>,
      <<"h","a","s">>, <<"a","r","e">>, <<"i","s">>, <<"i","n">>, <<"o","n">>,
      <<"o","f">>, <<"t","o">>, <<"b","y">>, <<"a","s">>, <<"b","e">>,
      <<"w","i","l","l">>, <<"a">>, <<"a","n">>, <<"r","o","l","e">> }

\* a slip: the .strip() of clean_text left out
clean_text_no_strip(text) == SubRuns("\\s", text, FALSE)

\* re.sub(r'\s+', ' ', text).strip()
clean_text(text) == StripSpace(SubRuns("\\s", text, FALSE))

\* SHA-256 of the text, as an ideal (collision-free) digest: the digest of a
\* text is the pair of the algorithm's name and the text hashed
jd_hash_func(text) == <<"sha256", text>>

extract_tokens(text) ==
    LET t1  == SubRuns("bullet", text, FALSE)
        t2  == LowerText(StripSpace(SubRuns("\\s", t1, FALSE)))
        t3  == Replace(Replace(t2, <<"r","e","a","c","t",".","j","s">>,
                                   <<"r","e","a","c","t","j","s">>),
                       <<"n","o","d","e",".","j","s">>,
                       <<"n","o","d","e","j","s">>)
        raw == Split(t3)
        kept == {i \in DOMAIN raw :
                    /\ raw[i] # <<>>
                    /\ Strip(raw[i], StripChars) \notin STOPWORDS}
    IN {Strip(raw[i], StripChars) : i \in kept}

\* round(n / d, 0) for d > 0: Python's round, ties to the even neighbour
RoundDiv(n, d) ==
    LET q == n \div d
        r == n % d
    IN IF 2 * r < d THEN q
       ELSE IF 2 * r > d THEN q + 1
       ELSE IF q % 2 = 0 THEN q ELSE q + 1

\* a slip in the weights: tools and soft exchanged
OverallSwapped(t, e, tl, s) == RoundDiv(t * 45 + e * 30 + tl * 10 + s * 15, 100)

\* round(t*0.45 + e*0.30 + tl*0.15 + s*0.10, 2), all in hundredths
OverallScore(t, e, tl, s) == RoundDiv(t * 45 + e * 30 + tl * 15 + s * 10, 100)

\* a slip: the similarity not scaled to a percentage
ExperienceUnscaled(sim) == RoundDiv(sim, 10000)

\* round(sim * 100.0, 2) in hundredths, sim in millionths
ExperienceScore(sim) == RoundDiv(sim, 100)

\* a slip: the division by len(required_set) left out
compute_presence_count(required_set, resume_tokens_set) ==
    IF required_set = {} THEN 0
    ELSE Cardinality(required_set \cap resume_tokens_set) * 10000

\* a slip: the share of the resume's tokens that are required, not the
\* share of the required skills that are present
compute_presence_density(required_set, resume_tokens_set) ==
    IF required_set = {} \/ resume_tokens_set = {} THEN 0
    ELSE RoundDiv(Cardinality(required_set \cap resume_tokens_set) * 10000,
                  Cardinality(resume_tokens_set))

\* round((present / len(required_set)) * 100.0, 2) in hundredths
compute_presence_score(required_set, resume_tokens_set) ==
    IF required_set = {} THEN 0
    ELSE RoundDiv(Cardinality(required_set \cap resume_tokens_set) * 10000,
                  Cardinality(required_set))

(***************************************************************************)
(* Rendering of the report.                                                *)
(***************************************************************************)
RECURSIVE NatDigits(_)
NatDigits(n) ==
    IF n < 10 THEN <<Digits[n + 1]>>
    ELSE NatDigits(n \div 10) \o <<Digits[(n % 10) + 1]>>

\* str(x) of a float x with at most two decimals, x given in hundredths
FormatFloat(h) ==
    LET a    == IF h < 0 THEN 0 - h ELSE h
        frac == a % 100
        fd   == IF frac % 10 = 0 THEN <<Digits[(frac \div 10) + 1]>>
                ELSE <<Digits[(frac \div 10) + 1], Digits[(frac % 10) + 1]>>
    IN (IF h < 0 THEN <<"-">> ELSE <<>>) \o NatDigits(a \div 100) \o <<".">> \o fd

\* ', '.join(list)
RECURSIVE JoinComma(_)
JoinComma(list) ==
    IF list = <<>> THEN <<>>
    ELSE IF Len(list) = 1 THEN list[1]
    ELSE list[1] \o <<",", " ">> \o JoinComma(Tail(list))

NoneDetected == <<"N","o","n","e"," ","d","e","t","e","c","t","e","d">>
NoneText == <<"N","o","n","e">>

OrElse(list, placeholder) == IF list # <<>> THEN JoinComma(list) ELSE placeholder

\* raw_text_lines: the variable lines of the report, each with its fixed label
ReportLines(role_key, overall, technical, experience, tools, soft, matching_core, matching_tools, matching_soft, missing_core, missing_tools) ==
    << <<"Role", role_key>>,
       <<"Overall Fit Score", FormatFloat(overall)>>,
       <<"Technical Skills", FormatFloat(technical)>>,
       <<"Experience Relevance", FormatFloat(experience)>>,
       <<"Tools & Platforms", FormatFloat(tools)>>,
       <<"Soft Skills", FormatFloat(soft)>>,
       <<"Strong Matches (Core skills)", OrElse(matching_core, NoneDetected)>>,
       <<"Tools / Platforms Matched", OrElse(matching_tools, NoneDetected)>>,
       <<"Soft/Domain Matches", OrElse(matching_soft, NoneDetected)>>,
       <<"Missing (priority) Core Skills", OrElse(missing_core, NoneText)>>,
       <<"Missing Tools", OrElse(missing_tools, NoneText)>> >>

(***************************************************************************)
(* db_mysql.py: the role/skill directory.  roles is the table of Role      *)
(* rows, skills the table of Skill rows.                                   *)
(***************************************************************************)
VARIABLES roles, skills

SkillTypes == {"core", "tools", "soft"}

EmptyBuckets == [core |-> {}, tools |-> {}, soft |-> {}]

\* get_role_skills_dict on the tables rs (roles) and sk (skills); ok is
\* whether the database answers.  out[typ] raises KeyError for a row whose
\* type is none of the three keys.
get_role_skills_dict(role_name, rs, sk, ok) ==
    IF ~ok THEN [raised |-> TRUE, value |-> EmptyBuckets]
    ELSE LET found == {r \in rs : r.name = role_name}
         IN IF found = {} THEN [raised |-> FALSE, value |-> EmptyBuckets]
            ELSE LET role == CHOOSE r \in found : TRUE
                     rows == {k \in sk : k.role_id = role.id}
                 IN IF \E k \in rows : k.type \notin SkillTypes
                    THEN [raised |-> TRUE, value |-> EmptyBuckets]
                    ELSE [raised |-> FALSE,
                          value  |-> [typ \in SkillTypes |->
                                        {k.name : k \in {x \in rows : x.type = typ}}]]

\* any(d.values())
AnyBucket(d) == d.core # {} \/ d.tools # {} \/ d.soft # {}

(***************************************************************************)
(* analyse_pdf.py: analyse_resume_st.  env gives the outcome of each       *)
(* external call of this invocation: lookup_ok and generic_ok (the two     *)
(* directory lookups), embed_ok (model.encode), cosine_ok                  *)
(* (cosine_similarity) and sim, the similarity it returns.                 *)
(***************************************************************************)
Raised == [raised |-> TRUE]

\* a slip: the except branch leaves sim as the failed call left it
SimilarityNotReset(env) ==
    IF ~env.embed_ok THEN [raised |-> TRUE, sim |-> 0]
    ELSE [raised |-> FALSE, sim |-> env.sim]

\* emb = model.encode(...) outside the try; cosine_similarity inside it
Similarity(env) ==
    IF ~env.embed_ok THEN [raised |-> TRUE, sim |-> 0]
    ELSE IF env.cosine_ok THEN [raised |-> FALSE, sim |-> env.sim]
    ELSE [raised |-> FALSE, sim |-> 0]

\* a slip: the lookup of the default role left out
RoleSkillsNoFallback(role, rs, sk, env) ==
    get_role_skills_dict(IF role # "" THEN role ELSE DefaultRole, rs, sk, env.lookup_ok)

\* lines 48-58: the role's buckets, the default role's when they are empty
RoleSkills(role, rs, sk, env) ==
    LET role_key == IF role # "" THEN role ELSE DefaultRole
        first    == get_role_skills_dict(role_key, rs, sk, env.lookup_ok)
    IN IF first.raised THEN first
       ELSE IF AnyBucket(first.value) THEN first
       ELSE LET generic == get_role_skills_dict(DefaultRole, rs, sk, env.generic_ok)
            IN IF generic.raised THEN generic
               ELSE IF AnyBucket(generic.value) THEN generic
               ELSE first

\* a slip: the soft set restricted by the job description as core and tools
RequiredSetsSoftRestricted(role_skills, jd_tokens) ==
    LET jd_core_overlap  == role_skills.core \cap jd_tokens
        jd_tools_overlap == role_skills.tools \cap jd_tokens
        jd_soft_overlap  == role_skills.soft \cap jd_tokens
    IN [core  |-> IF jd_core_overlap # {} THEN jd_core_overlap ELSE role_skills.core,
        tools |-> IF jd_tools_overlap # {} THEN jd_tools_overlap ELSE role_skills.tools,
        soft  |-> IF jd_soft_overlap # {} THEN jd_soft_overlap ELSE role_skills.soft]

\* lines 71-75: the required sets the scores and the lists are computed from
RequiredSets(role_skills, jd_tokens) ==
    LET jd_core_overlap  == role_skills.core \cap jd_tokens
        jd_tools_overlap == role_skills.tools \cap jd_tokens
    IN [core  |-> IF jd_core_overlap # {} THEN jd_core_overlap ELSE role_skills.core,
        tools |-> IF jd_tools_overlap # {} THEN jd_tools_overlap ELSE role_skills.tools,
        soft  |-> role_skills.soft]

\* a slip: the subtraction of the resume tokens left out
MissingOfAll(required, resume_tokens) == Sorted(required)

\* lines 89-91 and 93-95: the sorted lists of one category
MatchingOf(required, resume_tokens) == Sorted(required \cap resume_tokens)
MissingOf(required, resume_tokens) == Sorted(required \ resume_tokens)

analyse_resume_st(resume_content, job_description, role, rs, sk, env) ==
    LET resume_text == clean_text(resume_content)
        jd_text     == clean_text(job_description)
        role_key    == IF role # "" THEN role ELSE DefaultRole
        looked      == RoleSkills(role, rs, sk, env)
        similarity  == Similarity(env)
    IN IF looked.raised \/ similarity.raised THEN Raised
       ELSE
       LET resume_tokens    == extract_tokens(resume_text)
           jd_tokens        == extract_tokens(jd_text)
           experience_score == ExperienceScore(similarity.sim)
           req              == RequiredSets(looked.value, jd_tokens)
           technical_score  == compute_presence_score(req.core, resume_tokens)
           tools_score      == compute_presence_score(req.tools, resume_tokens)
           soft_score       == compute_presence_score(req.soft, resume_tokens)
           overall          == OverallScore(technical_score, experience_score,
                                            tools_score, soft_score)
           matching_core    == MatchingOf(req.core, resume_tokens)
           matching_tools   == MatchingOf(req.tools, resume_tokens)
           matching_soft    == MatchingOf(req.soft, resume_tokens)
           missing_core     == MissingOf(req.core, resume_tokens)
           missing_tools    == MissingOf(req.tools, resume_tokens)
           missing_soft     == MissingOf(req.soft, resume_tokens)
       IN [raised         |-> FALSE,
           raw_text       |-> ReportLines(role_key, overall, technical_score,
                                          experience_score, tools_score, soft_score,
                                          matching_core, matching_tools, matching_soft,
                                          missing_core, missing_tools),
           overall        |-> overall,
           technical      |-> technical_score,
           experience     |-> experience_score,
           tools          |-> tools_score,
           soft           |-> soft_score,
           matching_core  |-> matching_core,
           matching_tools |-> matching_tools,
           matching_soft  |-> matching_soft,
           missing_core   |-> missing_core,
           missing_tools  |-> missing_tools,
           missing_soft   |-> missing_soft,
           model_version  |-> MODEL_VERSION,
           jd_hash        |-> jd_hash_func(jd_text)]

(***************************************************************************)
(* Inputs of the scorer: skill names, texts, directories, similarities.    *)
(***************************************************************************)
sk_python == <<"p","y","t","h","o","n">>
sk_sql == <<"s","q","l">>
sk_cpp == <<"c","+","+">>
sk_docker == <<"d","o","c","k","e","r">>
sk_git == <<"g","i","t">>
sk_communication == <<"c","o","m","m","u","n","i","c","a","t","i","o","n">>
sk_excel == <<"e","x","c","e","l">>

\* "I have 3 years of Python and SQL experience"
ResumeA ==
    <<"I"," ","h","a","v","e"," ","3"," ","y","e","a","r","s"," ","o","f"," ",
          "P","y","t","h","o","n"," ","a","n","d"," ","S","Q","L"," ","e","x",
          "p","e","r","i","e","n","c","e">>

\* "Python; C++ - Docker,\tgit.  Communication"
ResumeB ==
    <<"P","y","t","h","o","n",";"," ","C","+","+"," ","-"," ","D","o","c","k",
          "e","r",",","\t","g","i","t","."," "," ","C","o","m","m","u","n",
          "i","c","a","t","i","o","n">>

\* "Excel (and git)"
ResumeC ==
    <<"E","x","c","e","l"," ","(","a","n","d"," ","g","i","t",")">>

\* "Looking for Python, SQL, and communication skills"
JdA ==
    <<"L","o","o","k","i","n","g"," ","f","o","r"," ","P","y","t","h","o","n",
          ","," ","S","Q","L",","," ","a","n","d"," ","c","o","m","m","u","n",
          "i","c","a","t","i","o","n"," ","s","k","i","l","l","s">>

\* " Docker and c++ "
JdB ==
    <<" ","D","o","c","k","e","r"," ","a","n","d"," ","c","+","+"," ">>

\* "Docker  and\tc++": JdB with other whitespace
JdBSpaced ==
    <<"D","o","c","k","e","r"," "," ","a","n","d","\t","c","+","+">>

NoText == <<>>

ResumeTexts == {ResumeA, ResumeB, ResumeC, NoText}
JdTexts == {JdA, JdB, JdBSpaced, NoText}

AnalystRole == "Data Analyst"
RoleChoices == {"", AnalystRole, "Unknown Role"}

\* the Skill rows of one role
SkillRows(role_id, buckets) ==
    {[role_id |-> role_id, name |-> n, type |-> typ] :
        <<n, typ>> \in (buckets.core \X {"core"}) \cup (buckets.tools \X {"tools"})
                       \cup (buckets.soft \X {"soft"})}

GenericId == 1
AnalystId == 2

BothRoles == {[id |-> GenericId, name |-> DefaultRole],
              [id |-> AnalystId, name |-> AnalystRole]}

\* directories the administration operations can build: <<roles, skills>>
DirEmpty == <<{}, {}>>
DirScenarioA ==
    <<{[id |-> AnalystId, name |-> AnalystRole]},
      SkillRows(AnalystId, [core |-> {sk_python, sk_sql}, tools |-> {},
                            soft |-> {sk_communication}])>>
DirGenericOnly ==
    <<BothRoles,
      SkillRows(GenericId, [core |-> {sk_python, sk_sql, sk_cpp},
                            tools |-> {sk_docker, sk_git},
                            soft |-> {sk_communication}])>>
DirBoth ==
    <<BothRoles,
      SkillRows(GenericId, [core |-> {sk_cpp}, tools |-> {sk_git}, soft |-> {}])
      \cup SkillRows(AnalystId, [core |-> {sk_python, sk_sql, sk_excel},
                                 tools |-> {sk_docker, sk_git, sk_excel},
                                 soft |-> {sk_communication, sk_sql, sk_git}])>>

ScoreDirectories == {DirEmpty, DirScenarioA, DirGenericOnly, DirBoth}

\* similarities returned by cosine_similarity, in millionths
SimValues == {0 - 250000, 0, 333333, 800000, 1000000}

ScoreEnvs ==
    [lookup_ok : BOOLEAN, generic_ok : BOOLEAN, embed_ok : BOOLEAN,
     cosine_ok : BOOLEAN, sim : SimValues]

(***************************************************************************)
(* State.                                                                  *)
(***************************************************************************)
\* sc: one call of analyse_resume_st, its arguments and what it returned
\* uploads: the files of the upload folder, by filename
\* candidates: the table of CandidateScore rows (the score cache)
\* req: each upload handler's request, local variables and position
\* started: the number of requests taken so far
\* jobs: the job_descriptions tables of db_mysql.py and of db_cache.py
\* adm: the last administration call, its arguments and what it returned
VARIABLES sc, uploads, candidates, req, started, jobs, adm

vars == <<roles, skills, sc, uploads, candidates, req, started, jobs, adm>>

NoJobs == [mysql |-> {}, sqlite |-> {}, seq |-> 0]
NoCall == [op |-> "none"]

ScoreIdle == [phase |-> "idle"]

ScoreInit ==
    /\ \E d \in ScoreDirectories : roles = d[1] /\ skills = d[2]
    /\ sc = ScoreIdle
    /\ uploads = <<>> /\ candidates = {} /\ req = <<>> /\ started = 0
    /\ jobs = NoJobs /\ adm = NoCall

\* a caller invokes analyse_resume_st and gets its record, or its exception
ScoreCall ==
    /\ sc.phase = "idle"
    /\ \E resume \in ResumeTexts, jd \in JdTexts, role \in RoleChoices,
          env \in ScoreEnvs :
          sc' = [phase |-> "returned", resume |-> resume, jd |-> jd,
                 role |-> role, env |-> env,
                 ret |-> analyse_resume_st(resume, jd, role, roles, skills, env)]
    /\ UNCHANGED <<roles, skills, uploads, candidates, req, started, jobs, adm>>

\* the similarity value the caller sees analyse_resume_st work with: what
\* cosine_similarity returns, 0.0 when it fails
SimilarityValue(env) == IF env.cosine_ok THEN env.sim ELSE 0

\* the caller repeats a call that returned a record: same arguments, same
\* tables, every external call succeeding or failing so as to give the same
\* similarity value
ScoreRepeat ==
    /\ sc.phase = "returned" /\ ~sc.ret.raised
    /\ \E env2 \in ScoreEnvs :
          /\ env2.lookup_ok /\ env2.generic_ok /\ env2.embed_ok
          /\ SimilarityValue(env2) = SimilarityValue(sc.env)
          /\ sc' = [phase |-> "repeated", resume |-> sc.resume, jd |-> sc.jd,
                    role |-> sc.role, env |-> env2, first |-> sc.ret,
                    ret |-> analyse_resume_st(sc.resume, sc.jd, sc.role, roles,
                                              skills, env2)]
    /\ UNCHANGED <<roles, skills, uploads, candidates, req, started, jobs, adm>>

ScoreReturn ==
    /\ sc.phase \in {"returned", "repeated"}
    /\ sc' = ScoreIdle
    /\ UNCHANGED <<roles, skills, uploads, candidates, req, started, jobs, adm>>

ScoreNext == ScoreCall \/ ScoreRepeat \/ ScoreReturn

SpecScore == ScoreInit /\ [][ScoreNext]_vars

(***************************************************************************)
(* Properties of analyse_resume_st (under SpecScore).                      *)
(***************************************************************************)
Returned == sc.phase = "returned" /\ ~sc.ret.raised

\* the outcome of the directory lookups of the call in sc
CallLookup == RoleSkills(sc.role, roles, skills, sc.env)

\* the required sets the call in sc scores against
CallRequired == RequiredSets(CallLookup.value, extract_tokens(clean_text(sc.jd)))

\* the weighted sum of four scores, times 10000
WeightedSum(r) == 45 * r.technical + 30 * r.experience + 15 * r.tools + 10 * r.soft

\* C1: the overall score of every record analyse_resume_st returns is
\* round(0.45*technical + 0.30*experience + 0.15*tools + 0.10*soft, 2) of the
\* four category scores of that record.
C1_OverallIsWeightedSum ==
    Returned => sc.ret.overall = RoundDiv(WeightedSum(sc.ret), 100)

\* a record with four non-zero category scores whose weighted sum is rounded
C1_Witness ==
    /\ Returned
    /\ sc.ret.technical > 0 /\ sc.ret.tools > 0 /\ sc.ret.soft > 0
    /\ sc.ret.experience < 0
    /\ sc.ret.tools # sc.ret.soft
    /\ WeightedSum(sc.ret) % 100 # 0

IsSorted(list) == \A i \in 1..(Len(list) - 1) : StrLess(list[i], list[i + 1])

IsPartition(matching, missing, required) ==
    /\ Range(matching) \cap Range(missing) = {}
    /\ Range(matching) \cup Range(missing) = required
    /\ IsSorted(matching) /\ IsSorted(missing)

\* C2: in every record returned, the matching and the missing list of each
\* category (core, tools, soft) are disjoint, their union is the required set
\* the category was scored against (JD-restricted core and tools, full soft),
\* and both lists are sorted.
C2_MatchingMissingPartition ==
    Returned =>
        /\ IsPartition(sc.ret.matching_core, sc.ret.missing_core, CallRequired.core)
        /\ IsPartition(sc.ret.matching_tools, sc.ret.missing_tools, CallRequired.tools)
        /\ IsPartition(sc.ret.matching_soft, sc.ret.missing_soft, CallRequired.soft)

\* a call whose core set is restricted by the job description and split by
\* the resume, and whose tools lists have two entries to put in order
C2_Witness ==
    /\ Returned
    /\ CallRequired.core # CallLookup.value.core
    /\ sc.ret.matching_core # <<>> /\ sc.ret.missing_core # <<>>
    /\ Len(sc.ret.matching_tools) >= 2
    /\ sc.ret.missing_tools # <<>>
    /\ sc.ret.matching_soft # <<>> /\ sc.ret.missing_soft # <<>>

\* C3: when the similarity call fails (the embedding step or the cosine
\* step) and nothing else does, analyse_resume_st returns a record with
\* experience 0 and raises nothing.
C3_SimilarityFailureGivesZero ==
    (/\ sc.phase = "returned"
     /\ ~CallLookup.raised
     /\ (~sc.env.embed_ok \/ ~sc.env.cosine_ok))
    => (~sc.ret.raised /\ sc.ret.experience = 0)

\* C4: when the directory lookup raises or returns nothing usable and nothing
\* else fails, analyse_resume_st still returns a record.
C4_DirectoryFailureFallsBack ==
    (/\ sc.phase = "returned"
     /\ sc.env.embed_ok
     /\ (CallLookup.raised \/ ~AnyBucket(CallLookup.value)))
    => ~sc.ret.raised

\* "Docker and c++": the text JdB and JdBSpaced have in common once runs of
\* whitespace are single spaces and the ends are trimmed
DockerAndCpp == <<"D","o","c","k","e","r"," ","a","n","d"," ","c","+","+">>

\* the whitespace-cleaned form of each job description of JdTexts, written out
CleanedJd(jd) ==
    IF jd \in {JdB, JdBSpaced} THEN DockerAndCpp
    ELSE IF jd = JdA THEN JdA
    ELSE NoText

\* C11: the jd_hash of a returned record is the digest of the whitespace-
\* cleaned job description and of nothing else: an empty (or null) job
\* description gives the digest of the empty text, and any call on a job
\* description with the same cleaned form, with the same or another resume
\* and role, gives the same jd_hash; the model version of the key is the fixed tag.
C11_KeyIsFunctionOfCleanedJd ==
    Returned =>
        /\ sc.ret.jd_hash = jd_hash_func(CleanedJd(sc.jd))
        /\ sc.ret.model_version = MODEL_VERSION
        /\ \A jd2 \in JdTexts, other \in {<<sc.resume, sc.role>>, <<NoText, "">>} :
              LET again == analyse_resume_st(other[1], jd2, other[2], roles, skills,
                                             sc.env)
              IN (~again.raised /\ CleanedJd(jd2) = CleanedJd(sc.jd))
                    => again.jd_hash = sc.ret.jd_hash

\* a call on a job description that differs from its cleaned form, beside
\* which another job description with the same cleaned form exists
C11_Witness ==
    /\ Returned
    /\ sc.jd = JdBSpaced
    /\ sc.ret.jd_hash = jd_hash_func(DockerAndCpp)
    /\ sc.resume # NoText /\ sc.role # ""
    /\ LET again == analyse_resume_st(NoText, JdB, "", roles, skills, sc.env)
       IN ~again.raised /\ again.jd_hash = sc.ret.jd_hash
    /\ sc.ret.jd_hash # jd_hash_func(sc.jd)

\* the skill names the directory holds for a role name under one type
DirectorySet(role_name, typ) ==
    {k.name : k \in {x \in skills : /\ x.type = typ
                                    /\ \E r \in roles : r.name = role_name /\ r.id = x.role_id}}

DirectoryEmpty(role_name) == \A typ \in SkillTypes : DirectorySet(role_name, typ) = {}

\* the skills of one category a returned record was scored against: those it
\* lists as matching or as missing
Listed(matching, missing) == Range(matching) \cup Range(missing)

\* the required set of one category for a full role set and the tokens of the
\* job description, restricted or not
RequiredFrom(full, jd_tokens, restricted) ==
    IF restricted /\ full \cap jd_tokens # {} THEN full \cap jd_tokens ELSE full

CallRole == IF sc.role # "" THEN sc.role ELSE DefaultRole

\* the record of the call in sc was scored against the directory's sets of
\* the role role_name
ScoredAgainst(role_name) ==
    LET jd_tokens == extract_tokens(clean_text(sc.jd))
    IN /\ Listed(sc.ret.matching_core, sc.ret.missing_core)
             = RequiredFrom(DirectorySet(role_name, "core"), jd_tokens, TRUE)
       /\ Listed(sc.ret.matching_tools, sc.ret.missing_tools)
             = RequiredFrom(DirectorySet(role_name, "tools"), jd_tokens, TRUE)
       /\ Listed(sc.ret.matching_soft, sc.ret.missing_soft)
             = RequiredFrom(DirectorySet(role_name, "soft"), jd_tokens, FALSE)

\* C12: when the directory has no skill at all for the chosen role, a
\* returned record is scored against the default role's sets, and when the
\* default role has none either, against empty sets: technical, tools and
\* soft are 0 and overall is round(0.30 * experience, 2).
C12_EmptyRoleFallsBackToDefault ==
    (Returned /\ DirectoryEmpty(CallRole)) =>
        /\ ScoredAgainst(DefaultRole)
        /\ DirectoryEmpty(DefaultRole) =>
              /\ sc.ret.technical = 0 /\ sc.ret.tools = 0 /\ sc.ret.soft = 0
              /\ sc.ret.overall = RoundDiv(30 * sc.ret.experience, 100)

\* a call for a role without skills that is scored against the default
\* role's sets, with a skill of them found in the resume
C12_Witness ==
    /\ Returned
    /\ CallRole # DefaultRole
    /\ DirectoryEmpty(CallRole) /\ ~DirectoryEmpty(DefaultRole)
    /\ ScoredAgainst(DefaultRole)
    /\ sc.ret.technical > 0 /\ sc.ret.missing_core # <<>>

Percent == 0..10000

\* C14: in every returned record technical, tools and soft are in [0, 100],
\* and 0.0 for a category whose required set is empty; when the similarity is
\* in [0, 1], overall is in [0, 100] too.
C14_ScoresWithinBounds ==
    Returned =>
        /\ sc.ret.technical \in Percent
        /\ sc.ret.tools \in Percent
        /\ sc.ret.soft \in Percent
        /\ Listed(sc.ret.matching_core, sc.ret.missing_core) = {} => sc.ret.technical = 0
        /\ Listed(sc.ret.matching_tools, sc.ret.missing_tools) = {} => sc.ret.tools = 0
        /\ Listed(sc.ret.matching_soft, sc.ret.missing_soft) = {} => sc.ret.soft = 0
        /\ SimilarityValue(sc.env) \in 0..1000000 => sc.ret.overall \in Percent

\* a record at the upper bound: every required skill present, similarity 1.0
C14_Witness ==
    /\ Returned
    /\ sc.ret.technical = 10000 /\ sc.ret.tools = 10000 /\ sc.ret.soft = 10000
    /\ SimilarityValue(sc.env) = 1000000
    /\ sc.ret.overall = 10000

\* the call of scenario A: resume "I have 3 years of Python and SQL
\* experience", job description "Looking for Python, SQL, and communication
\* skills", a role with core {python, sql}, no tools and soft
\* {communication}, similarity 0.8
ScenarioA ==
    /\ Returned
    /\ sc.resume = ResumeA /\ sc.jd = JdA /\ sc.role = AnalystRole
    /\ DirectorySet(AnalystRole, "core") = {sk_python, sk_sql}
    /\ DirectorySet(AnalystRole, "tools") = {}
    /\ DirectorySet(AnalystRole, "soft") = {sk_communication}
    /\ SimilarityValue(sc.env) = 800000

\* C15: in scenario A the record has technical = 100.0, tools = 0.0,
\* soft = 0.0, experience = 80.0 and overall = 69.0.
C15_ScenarioA ==
    ScenarioA =>
        /\ sc.ret.technical = 10000
        /\ sc.ret.tools = 0
        /\ sc.ret.soft = 0
        /\ sc.ret.experience = 8000
        /\ sc.ret.overall = 6900

\* scenario A has been run, with a similarity the cosine step returned
C15_Witness ==
    /\ ScenarioA
    /\ sc.env.cosine_ok
    /\ sc.ret.matching_core = <<sk_python, sk_sql>>
    /\ sc.ret.missing_soft = <<sk_communication>>


\* the role whose directory sets a call is scored against
EffectiveRole == IF DirectoryEmpty(CallRole) THEN DefaultRole ELSE CallRole

CallJdTokens == extract_tokens(clean_text(sc.jd))
CallResumeTokens == extract_tokens(clean_text(sc.resume))

\* C20: a returned record is scored against (role core /\ JD tokens) when
\* that intersection is not empty and against the full role core otherwise;
\* tools follow the same rule on their own intersection; soft is scored
\* against the full role soft set whatever the job description mentions.
C20_RequiredSetsRule ==
    Returned =>
        LET core  == DirectorySet(EffectiveRole, "core")
            tools == DirectorySet(EffectiveRole, "tools")
            soft  == DirectorySet(EffectiveRole, "soft")
            core_required  == IF core \cap CallJdTokens # {}
                              THEN core \cap CallJdTokens ELSE core
            tools_required == IF tools \cap CallJdTokens # {}
                              THEN tools \cap CallJdTokens ELSE tools
        IN /\ Listed(sc.ret.matching_core, sc.ret.missing_core) = core_required
           /\ Listed(sc.ret.matching_tools, sc.ret.missing_tools) = tools_required
           /\ Listed(sc.ret.matching_soft, sc.ret.missing_soft) = soft
           /\ sc.ret.technical = compute_presence_score(core_required, CallResumeTokens)
           /\ sc.ret.tools = compute_presence_score(tools_required, CallResumeTokens)
           /\ sc.ret.soft = compute_presence_score(soft, CallResumeTokens)

\* a call whose job description mentions some but not all of the role's core
\* and soft skills and none of its tools: core is restricted, tools are not,
\* and soft is scored in full with a skill the job description does not name
C20_Witness ==
    /\ Returned
    /\ LET core  == DirectorySet(EffectiveRole, "core")
           tools == DirectorySet(EffectiveRole, "tools")
           soft  == DirectorySet(EffectiveRole, "soft")
       IN /\ core \cap CallJdTokens # {} /\ core \ CallJdTokens # {}
          /\ tools # {} /\ tools \cap CallJdTokens = {}
          /\ soft \cap CallJdTokens # {} /\ soft \ CallJdTokens # {}
          /\ Listed(sc.ret.matching_core, sc.ret.missing_core) = core \cap CallJdTokens
          /\ Listed(sc.ret.matching_tools, sc.ret.missing_tools) = tools
          /\ Listed(sc.ret.matching_soft, sc.ret.missing_soft) = soft
          /\ sc.ret.matching_soft # <<>> /\ sc.ret.soft > 0 /\ sc.ret.soft < 10000


\* "SQL", "C++", "git", "Excel" and nothing: text added to a resume
MoreTexts == {<<"S","Q","L">>, <<"C","+","+">>, <<"g","i","t">>,
              <<"E","x","c","e","l">>, NoText}

\* the record for the call in sc with more text added to its resume, all
\* else (job description, role, directory, similarity) the same
WithMoreResume(extra) ==
    analyse_resume_st(sc.resume \o <<" ">> \o extra, sc.jd, sc.role, roles, skills, sc.env)

AddsTokens(extra) ==
    CallResumeTokens \subseteq extract_tokens(clean_text(sc.resume \o <<" ">> \o extra))

\* C26: with the job description, the role's sets and the similarity fixed,
\* a resume with more tokens scores no lower in technical, tools, soft and
\* overall, and every skill listed as matching is still listed as matching.
C26_MonotoneInResume ==
    Returned =>
        \A extra \in MoreTexts :
            AddsTokens(extra) =>
                LET more == WithMoreResume(extra)
                IN /\ ~more.raised
                   /\ more.technical >= sc.ret.technical
                   /\ more.tools >= sc.ret.tools
                   /\ more.soft >= sc.ret.soft
                   /\ more.overall >= sc.ret.overall
                   /\ Range(sc.ret.matching_core) \subseteq Range(more.matching_core)
                   /\ Range(sc.ret.matching_tools) \subseteq Range(more.matching_tools)
                   /\ Range(sc.ret.matching_soft) \subseteq Range(more.matching_soft)
                   /\ Range(more.missing_core) \subseteq Range(sc.ret.missing_core)
                   /\ Range(more.missing_tools) \subseteq Range(sc.ret.missing_tools)

\* a call with matching and missing skills whose resume, with more text
\* added, has more tokens and scores strictly higher, a
\* missing core skill having become a matching one
C26_Witness ==
    /\ Returned
    /\ sc.ret.matching_core # <<>> /\ sc.ret.missing_core # <<>>
    /\ \E extra \in MoreTexts :
          /\ AddsTokens(extra)
          /\ extract_tokens(clean_text(extra)) \ CallResumeTokens # {}
          /\ WithMoreResume(extra).technical > sc.ret.technical
          /\ WithMoreResume(extra).overall > sc.ret.overall
          /\ Range(sc.ret.missing_core) \cap Range(WithMoreResume(extra).matching_core) # {}

(***************************************************************************)
(* db_mysql.py: the score cache.  A CandidateScore row has the primary key *)
(* (resume_hash, jd_hash, role, model_version).                            *)
(***************************************************************************)
KeyOf(row) == <<row.resume_hash, row.jd_hash, row.role, row.model_version>>

RowsAt(table, key) == {row \in table : KeyOf(row) = key}

\* a slip: the role left out of the filter (the key of the older schema)
get_cached_score_any_role(table, resume_hash, jd_hash, role, model_version) ==
    LET found == {row \in table : /\ row.resume_hash = resume_hash
                                  /\ row.jd_hash = jd_hash
                                  /\ row.model_version = model_version}
    IN IF found = {} THEN [none |-> TRUE, score |-> 0]
       ELSE [none |-> FALSE, score |-> (CHOOSE row \in found : TRUE).score]

\* get_cached_score: the score of the row under the key, or None
get_cached_score(table, resume_hash, jd_hash, role, model_version) ==
    LET found == RowsAt(table, <<resume_hash, jd_hash, role, model_version>>)
    IN IF found = {} THEN [none |-> TRUE, score |-> 0]
       ELSE [none |-> FALSE, score |-> (CHOOSE row \in found : TRUE).score]

\* save_score, second half: the session's flush and commit.  existing is
\* what the query of the first half found.  An INSERT under a key that is in
\* the table by now is refused (IntegrityError); an UPDATE of a row that is
\* gone by now matches nothing (StaleDataError).
SaveScoreCommit(table, existing, row) ==
    LET now == RowsAt(table, KeyOf(row))
    IN IF existing
       THEN IF now = {} THEN [raised |-> "StaleDataError", table |-> table]
            ELSE [raised |-> "", table |-> (table \ now) \cup {row}]
       ELSE IF now # {} THEN [raised |-> "IntegrityError", table |-> table]
            ELSE [raised |-> "", table |-> table \cup {row}]

\* delete_cached: a filter on jd_hash or role is added only for a value that
\* is truthy (neither None nor empty)
delete_cached(table, resume_hash, jd_hash, role) ==
    table \ {row \in table :
                /\ row.resume_hash = resume_hash
                /\ (jd_hash # <<>> => row.jd_hash = jd_hash)
                /\ (role # "" => row.role = role)}

(***************************************************************************)
(* The upload handlers: index of app.py and the Analyse flow of            *)
(* streamlit_app.py, for one uploaded file.                                *)
(***************************************************************************)
\* one request thread of the Flask application and one script run of the
\* Streamlit application, over the same uploads directory and database
Handlers == {"h1", "h2"}
AppOf == [h1 |-> "flask", h2 |-> "streamlit"]
Filenames == {"cv.pdf", "cv2.pdf"}
Contents == {"pdfA", "pdfB"}
HandlerRoles == {"", AnalystRole}

\* "Python, SQL", "C++ - git" and "SQL, c++ and Git": the texts of the two
\* uploaded files and the job description of the requests
ShortResumeA == <<"P","y","t","h","o","n",","," ","S","Q","L">>
ShortResumeB == <<"C","+","+"," ","-"," ","g","i","t">>
ShortJd == <<"S","Q","L",","," ","c","+","+"," ","a","n","d"," ","G","i","t">>
HandlerJds == {ShortJd}

\* requests the handlers take in all
MaxRequests == 2

NoFile == "no file"
NoHash == <<>>

\* the text PyMuPDF extracts from a file of the given bytes
PdfText(content) ==
    IF content = "pdfA" THEN ShortResumeA
    ELSE IF content = "pdfB" THEN ShortResumeB
    ELSE NoText

\* compute_sha256(path) of hash_resume: the SHA-256 of the file's bytes, as
\* an ideal digest
compute_sha256(content) == <<"sha256", content>>

\* the similarity the embedding model gives two texts: a fixed function of
\* the texts
EmbeddingSimilarity(resume_text, jd_text) ==
    IF resume_text = clean_text(ShortResumeA) THEN 800000
    ELSE IF resume_text = clean_text(ShortResumeB) THEN 333333
    ELSE 0

\* the outcomes of the external calls of one analysis: all succeed, or
\* model.encode raises
HandlerEnv(resume_content, jd, embed_ok) ==
    [lookup_ok |-> TRUE, generic_ok |-> TRUE, embed_ok |-> embed_ok,
     cosine_ok |-> TRUE,
     sim |-> EmbeddingSimilarity(clean_text(resume_content), clean_text(jd))]

NoAnalysis == [none |-> TRUE]

\* streamlit_app.py line 561: the minimal analysis object
FallbackAnalysis(resume_text) ==
    [fallback |-> TRUE, overall |-> 0, raw_text |-> resume_text, jd_hash |-> NoHash]

IdleRequest ==
    [pc |-> "idle", app |-> "", filename |-> "", content |-> "", role |-> "",
     jd |-> NoText, resume_hash |-> NoHash, resume_content |-> NoText,
     analysis |-> NoAnalysis, cached |-> FALSE, existing |-> FALSE, cause |-> ""]

Init ==
    /\ roles = DirBoth[1] /\ skills = DirBoth[2]
    /\ sc = ScoreIdle
    /\ uploads = [f \in Filenames |-> NoFile]
    /\ candidates = {}
    /\ req = [h \in Handlers |-> IdleRequest]
    /\ started = 0
    /\ jobs = NoJobs /\ adm = NoCall

\* an exception in the handler: Flask answers 500 (nothing catches it), the
\* Streamlit flow goes on from its except clause
Fail(h, cause) == [req[h] EXCEPT !.pc = "error", !.cause = cause]

\* a request arrives at one of the two applications: one uploaded PDF, a
\* role and a job description
Start(h) ==
    /\ req[h].pc = "idle"
    /\ started < MaxRequests
    /\ started' = started + 1
    /\ \E f \in Filenames, c \in Contents, role \in HandlerRoles, jd \in HandlerJds :
          req' = [req EXCEPT ![h] = [IdleRequest EXCEPT
                     !.pc = "save_file", !.app = AppOf[h], !.filename = f,
                     !.content = c, !.role = role, !.jd = jd]]
    /\ UNCHANGED <<roles, skills, sc, uploads, candidates, jobs, adm>>

\* app.py 95-96, streamlit_app.py 530-537: the upload is written to
\* UPLOAD_FOLDER/filename
SaveFile(h) ==
    /\ req[h].pc = "save_file"
    /\ \E ok \in BOOLEAN :
          IF ok
          THEN /\ uploads' = [uploads EXCEPT ![req[h].filename] = req[h].content]
               /\ req' = [req EXCEPT ![h].pc = "hash"]
          ELSE /\ uploads' = uploads
               /\ req' = [req EXCEPT ![h] =
                            IF req[h].app = "flask" THEN Fail(h, "save")
                            ELSE [req[h] EXCEPT !.pc = "skipped"]]
    /\ UNCHANGED <<roles, skills, sc, candidates, started, jobs, adm>>

\* app.py 98, streamlit_app.py 539-544: the hash of the file at that path
HashFile(h) ==
    /\ req[h].pc = "hash"
    /\ \E ok \in BOOLEAN :
          req' = [req EXCEPT ![h] =
                    IF ok
                    THEN [req[h] EXCEPT !.pc = "extract",
                             !.resume_hash = compute_sha256(uploads[req[h].filename])]
                    ELSE IF req[h].app = "flask" THEN Fail(h, "compute_sha256")
                    ELSE [req[h] EXCEPT !.pc = "extract", !.resume_hash = NoHash]]
    /\ UNCHANGED <<roles, skills, sc, uploads, candidates, started, jobs, adm>>

\* app.py 99 (40-52), streamlit_app.py 546-553: the text of the file at that
\* path, or the empty text when reading it raises
ExtractText(h) ==
    /\ req[h].pc = "extract"
    /\ \E ok \in BOOLEAN :
          req' = [req EXCEPT ![h].pc = "analyse",
                             ![h].resume_content =
                                 IF ok THEN PdfText(uploads[req[h].filename])
                                 ELSE NoText]
    /\ UNCHANGED <<roles, skills, sc, uploads, candidates, started, jobs, adm>>

\* app.py 101-102, streamlit_app.py 555-563
Analyse(h) ==
    /\ req[h].pc = "analyse"
    /\ \E embed_ok \in BOOLEAN :
          LET ret == analyse_resume_st(req[h].resume_content, req[h].jd, req[h].role,
                        roles, skills,
                        HandlerEnv(req[h].resume_content, req[h].jd, embed_ok))
          IN req' = [req EXCEPT ![h] =
                       IF ~ret.raised
                       THEN [req[h] EXCEPT !.pc = "lookup", !.analysis = ret]
                       ELSE IF req[h].app = "flask" THEN Fail(h, "analyse_resume_st")
                       ELSE [req[h] EXCEPT !.pc = "lookup",
                               !.analysis = FallbackAnalysis(req[h].resume_content)]]
    /\ UNCHANGED <<roles, skills, sc, uploads, candidates, started, jobs, adm>>

\* the cache key the handler uses
HandlerKey(r) == <<r.resume_hash, r.analysis.jd_hash, r.role, MODEL_VERSION>>

\* a slip: on a hit the cached record stands in for the whole analysis
OnHitDropsDetails(r, cached_score) ==
    [r EXCEPT !.pc = "done", !.cached = TRUE,
              !.analysis = [fallback |-> TRUE, overall |-> cached_score,
                            raw_text |-> r.analysis.raw_text,
                            jd_hash |-> r.analysis.jd_hash]]

\* app.py 108-110, streamlit_app.py 573-575: the cached overall replaces
\* the computed one
OnHit(r, cached_score) ==
    [r EXCEPT !.pc = "done", !.analysis.overall = cached_score, !.cached = TRUE]

\* app.py 104-110, streamlit_app.py 565-575: db_ok is whether the database
\* answers get_cached_score
Lookup(h, db_ok) ==
    /\ req[h].pc = "lookup"
    /\ LET r   == req[h]
           got == get_cached_score(candidates, r.resume_hash, r.analysis.jd_hash,
                                   r.role, MODEL_VERSION)
       IN req' = [req EXCEPT ![h] =
                    IF ~db_ok
                    THEN IF r.app = "flask" THEN Fail(h, "get_cached_score")
                         ELSE [r EXCEPT !.pc = "save_select"]
                    ELSE IF ~got.none THEN OnHit(r, got.score)
                    ELSE [r EXCEPT !.pc = "save_select"]]
    /\ UNCHANGED <<roles, skills, sc, uploads, candidates, started, jobs, adm>>

LookupStep(h) == \E db_ok \in BOOLEAN : Lookup(h, db_ok)

\* what follows a save_score that raised: app.py has no handler (500),
\* streamlit_app.py 581-583 sets cached = False and goes on
SaveFailed(h, cause) ==
    IF req[h].app = "flask" THEN Fail(h, cause)
    ELSE [req[h] EXCEPT !.pc = "done", !.cached = FALSE, !.cause = cause]

\* db_mysql.py 154-157: save_score queries the row under the key
SaveSelect(h) ==
    /\ req[h].pc = "save_select"
    /\ \E db_ok \in BOOLEAN :
          req' = [req EXCEPT ![h] =
                    IF ~db_ok THEN SaveFailed(h, "save_score")
                    ELSE [req[h] EXCEPT !.pc = "save_commit",
                            !.existing = (RowsAt(candidates, HandlerKey(req[h])) # {})]]
    /\ UNCHANGED <<roles, skills, sc, uploads, candidates, started, jobs, adm>>

\* the row save_score writes for the handler's request
HandlerRow(r) ==
    [resume_hash |-> r.resume_hash, jd_hash |-> r.analysis.jd_hash, role |-> r.role,
     model_version |-> MODEL_VERSION, score |-> r.analysis.overall,
     jd_id |-> "None", source_filename |-> r.filename]

\* db_mysql.py 158-173 and the commit of session_scope, then app.py 118 /
\* streamlit_app.py 580
SaveCommit(h) ==
    /\ req[h].pc = "save_commit"
    /\ LET out == SaveScoreCommit(candidates, req[h].existing, HandlerRow(req[h]))
       IN /\ candidates' = out.table
          /\ req' = [req EXCEPT ![h] =
                       IF out.raised # "" THEN SaveFailed(h, out.raised)
                       ELSE [req[h] EXCEPT !.pc = "done", !.cached = FALSE]]
    /\ UNCHANGED <<roles, skills, sc, uploads, started, jobs, adm>>

\* the response is delivered (the result row, the skip or the 500) and the
\* handler is free for the next request
Finish(h) ==
    /\ req[h].pc \in {"done", "error", "skipped"}
    /\ req' = [req EXCEPT ![h] = IdleRequest]
    /\ UNCHANGED <<roles, skills, sc, uploads, candidates, started, jobs, adm>>

\* app.py 325-331: the admin deletes cached results of one resume
DeleteCached ==
    /\ \E row \in candidates :
          \E jd_hash \in {NoHash, row.jd_hash}, role \in {"", row.role} :
             candidates' = delete_cached(candidates, row.resume_hash, jd_hash, role)
    /\ UNCHANGED <<roles, skills, sc, uploads, req, started, jobs, adm>>

Next ==
    \/ \E h \in Handlers :
          \/ Start(h) \/ SaveFile(h) \/ HashFile(h) \/ ExtractText(h)
          \/ Analyse(h) \/ LookupStep(h) \/ SaveSelect(h) \/ SaveCommit(h)
          \/ Finish(h)
    \/ DeleteCached

Spec == Init /\ [][Next]_vars

(***************************************************************************)
(* Properties of the upload handlers (under Spec).                         *)
(***************************************************************************)
\* C5: a get_cached_score or save_score that raises is treated as a cache
\* miss: no request ends in an error because of it, in either caller.
C5_CacheFailureIsMiss ==
    \A h \in Handlers :
        req[h].pc = "error" => req[h].cause \notin {"get_cached_score", "save_score"}

PastHashing == {"extract", "analyse", "lookup", "save_select", "save_commit", "done"}

\* C6: a failure to hash the resume file is never replaced by a substitute
\* value: no handler goes on with an empty resume_hash, and no cache row is
\* written under one.
C6_HashFailurePropagates ==
    /\ \A h \in Handlers : req[h].pc \in PastHashing => req[h].resume_hash # NoHash
    /\ \A row \in candidates : row.resume_hash # NoHash

\* C7: when two requests for the same key both miss the cache and both
\* write, both writes are accepted and both requests complete: no
\* save_score is refused for a key that another request wrote meanwhile.
C7_BenignRace ==
    \A h \in Handlers : req[h].cause # "IntegrityError"

\* the analysis this handler's call of analyse_resume_st computed
FreshAnalysis(r) ==
    IF "fallback" \in DOMAIN r.analysis THEN FallbackAnalysis(r.resume_content)
    ELSE analyse_resume_st(r.resume_content, r.jd, r.role, roles, skills,
                           HandlerEnv(r.resume_content, r.jd, TRUE))

HitStep(h) == req[h].pc = "lookup" /\ req'[h].pc = "done" /\ req'[h].cached

\* C8: on a cache hit only the overall field of the freshly computed record
\* is replaced (by the cached score) and cached is set: every other field
\* of the record is the one computed in this call, and the cache is left as
\* it was.
C8_HitReplacesOnlyOverall ==
    [][\A h \in Handlers :
          HitStep(h) =>
             /\ candidates' = candidates
             /\ RowsAt(candidates, HandlerKey(req[h])) # {}
             /\ \A row \in RowsAt(candidates, HandlerKey(req[h])) :
                   req'[h].analysis.overall = row.score
             /\ DOMAIN req'[h].analysis = DOMAIN FreshAnalysis(req[h])
             /\ \A f \in DOMAIN req'[h].analysis \ {"overall"} :
                   req'[h].analysis[f] = FreshAnalysis(req[h])[f]
             /\ \A f \in DOMAIN req[h] \ {"pc", "analysis", "cached"} :
                   req'[h][f] = req[h][f]]_vars

\* a hit whose cached overall is not the weighted sum of the category scores
\* returned with it
C8_Witness ==
    \E h \in Handlers :
        /\ req[h].pc = "done" /\ req[h].cached
        /\ "technical" \in DOMAIN req[h].analysis
        /\ req[h].analysis.technical > 0
        /\ req[h].analysis.overall # RoundDiv(WeightedSum(req[h].analysis), 100)

\* the handler's save_score has committed
SavedStep(h) ==
    req[h].pc = "save_commit" /\ req'[h].pc = "done" /\ req'[h].cause = ""

OneRowPerKey(table) == \A r1, r2 \in table : KeyOf(r1) = KeyOf(r2) => r1 = r2

\* C9: the cache maps a key (resume_hash, jd_hash, role, model_version) to
\* one overall score.  A save after a miss leaves exactly the freshly
\* computed overall under the handler's key and every other key as it was; a
\* lookup the database answers reports cached = true with the stored overall
\* when there is a row under the key and a miss when there is none; and a
\* row stays as it is until a delete_cached or a save under its own key.
C9_CacheMapsKeyToOverall ==
    [][/\ OneRowPerKey(candidates')
       /\ \A h \in Handlers :
             /\ SavedStep(h) =>
                   /\ \A row \in RowsAt(candidates', HandlerKey(req[h])) :
                         row.score = req[h].analysis.overall
                   /\ RowsAt(candidates', HandlerKey(req[h])) # {}
                   /\ \A row \in candidates' \cup candidates :
                         KeyOf(row) # HandlerKey(req[h])
                            => (row \in candidates' /\ row \in candidates)
             /\ (Lookup(h, TRUE) /\ RowsAt(candidates, HandlerKey(req[h])) # {}) =>
                   /\ req'[h].pc = "done" /\ req'[h].cached
                   /\ \A row \in RowsAt(candidates, HandlerKey(req[h])) :
                         req'[h].analysis.overall = row.score
             /\ (Lookup(h, TRUE) /\ RowsAt(candidates, HandlerKey(req[h])) = {}) =>
                   /\ req'[h].pc = "save_select" /\ ~req'[h].cached
       /\ \A row \in candidates :
             \/ row \in candidates'
             \/ req' = req
             \/ \E h \in Handlers : SavedStep(h) /\ HandlerKey(req[h]) = KeyOf(row)]_vars

\* a request reported cached = true with the overall that an earlier request
\* (under another filename) stored for the same resume, job description and
\* role, beside a row under another key
C9_Witness ==
    \E h \in Handlers :
        /\ req[h].pc = "done" /\ req[h].cached
        /\ req[h].resume_hash = compute_sha256(req[h].content)
        /\ \E row \in candidates :
              /\ KeyOf(row) = HandlerKey(req[h])
              /\ row.score = req[h].analysis.overall
              /\ row.source_filename # req[h].filename
        /\ req[h].analysis.overall = FreshAnalysis(req[h]).overall

\* C10: concurrent requests are independent: the resume hash and the text a
\* handler works with are those of the file it was sent (or the empty
\* substitutes of a failed read), whatever the other handler does and
\* whatever the two uploads are named.
C10_RequestsIndependent ==
    \A h \in Handlers :
        /\ (req[h].pc \in PastHashing /\ req[h].resume_hash # NoHash)
              => req[h].resume_hash = compute_sha256(req[h].content)
        /\ req[h].pc \in (PastHashing \ {"extract"})
              => req[h].resume_content \in {NoText, PdfText(req[h].content)}

\* the results handed back with a report of the scorer: the streamlit
\* fallback object has the resume text where the report would be
HasReport(r) == r.pc = "done" /\ "fallback" \notin DOMAIN r.analysis

\* the value the report text prints on its line "Overall Fit Score"
PrintedOverall(raw_text) ==
    (CHOOSE line \in Range(raw_text) : line[1] = "Overall Fit Score")[2]

\* C24: in every result handed back, the overall printed in the report text
\* (summary) is the overall field of that result, on a cache hit too.
C24_ReportShowsOverall ==
    \A h \in Handlers :
        HasReport(req[h]) =>
            PrintedOverall(req[h].analysis.raw_text) = FormatFloat(req[h].analysis.overall)

\* what holds: the same for the results that did not come from the cache
ReportShowsOverallOnMiss ==
    \A h \in Handlers :
        (HasReport(req[h]) /\ ~req[h].cached) =>
            PrintedOverall(req[h].analysis.raw_text) = FormatFloat(req[h].analysis.overall)

\* C27: every cache entry the Streamlit Analyse flow writes is under the
\* SHA-256 of the uploaded file and the jd_hash of a scoring call that
\* succeeded, with the overall of that call: never under an empty
\* resume_hash or jd_hash, never the placeholder overall of a failed analysis.
C27_StreamlitWritesValidEntries ==
    [][\A h \in Handlers :
          (AppOf[h] = "streamlit" /\ SavedStep(h)) =>
             /\ req[h].resume_hash = compute_sha256(req[h].content)
             /\ "fallback" \notin DOMAIN req[h].analysis
             /\ req[h].analysis.jd_hash # NoHash
             /\ \A row \in RowsAt(candidates', HandlerKey(req[h])) :
                   row.score = FreshAnalysis(req[h]).overall]_vars

\* what holds: the entry written has the overall of the analysis object the
\* flow holds, computed or placeholder
StreamlitWritesItsOverall ==
    [][\A h \in Handlers :
          (AppOf[h] = "streamlit" /\ SavedStep(h)) =>
             \A row \in RowsAt(candidates', HandlerKey(req[h])) :
                row.score = req[h].analysis.overall]_vars

\* the entries of the table other than those whose resume_hash, jd_hash and
\* role are the given ones
WithoutEntriesOf(table, resume_hash, jd_hash, role) ==
    {r \in table : ~(/\ r.resume_hash = resume_hash
                     /\ r.jd_hash = jd_hash
                     /\ r.role = role)}

\* C28: for the resume_hash, jd_hash and role of any cache key with a
\* jd_hash, delete_cached given the three values removes the entries that
\* have these three values and no other entry, the role "" of a request
\* without a role included.
C28_DeleteCachedExact ==
    \A row \in candidates :
        row.jd_hash # NoHash =>
            delete_cached(candidates, row.resume_hash, row.jd_hash, row.role)
                = WithoutEntriesOf(candidates, row.resume_hash, row.jd_hash, row.role)

\* what holds: the same for the keys whose jd_hash and role are not empty
DeleteCachedExactForNonEmpty ==
    \A row \in candidates :
        (row.jd_hash # NoHash /\ row.role # "") =>
            delete_cached(candidates, row.resume_hash, row.jd_hash, row.role)
                = WithoutEntriesOf(candidates, row.resume_hash, row.jd_hash, row.role)

(***************************************************************************)
(* db_mysql.py: administration of the role/skill directory, and the routes *)
(* and pages that call it.                                                 *)
(***************************************************************************)
\* " Data Analyst ": the analyst role's name as typed with blanks around it
PaddedAnalystRole == " Data Analyst "

\* name.strip() on the role names of the model
StripRoleName(name) == IF name = PaddedAnalystRole THEN AnalystRole ELSE name

\* typ.lower().strip() on the type strings of the model
NormalType(typ) == IF typ = " Tools" THEN "tools" ELSE typ

\* the id the next inserted role gets (autoincrement; roles are never deleted)
NextRoleId(rs) == Cardinality(rs) + 1

\* None, for a role id
NoRoleId == 0

RoleIds(rs) == {r.id : r \in rs}

\* a slip: the query for an existing role left out
upsert_role_always_adds(rs, name) ==
    LET n == StripRoleName(name)
    IN IF n = "" THEN [raised |-> "ValueError", roles |-> rs, id |-> NoRoleId]
       ELSE [raised |-> "", roles |-> rs \cup {[id |-> NextRoleId(rs), name |-> n]},
             id |-> NextRoleId(rs)]

\* upsert_role: [raised, roles, id]
upsert_role(rs, name) ==
    LET n     == StripRoleName(name)
        found == {r \in rs : r.name = n}
    IN IF n = "" THEN [raised |-> "ValueError", roles |-> rs, id |-> NoRoleId]
       ELSE IF found # {}
       THEN [raised |-> "", roles |-> rs, id |-> (CHOOSE r \in found : TRUE).id]
       ELSE [raised |-> "", roles |-> rs \cup {[id |-> NextRoleId(rs), name |-> n]},
             id |-> NextRoleId(rs)]

get_role_id_by_name(rs, name) ==
    LET found == {r \in rs : r.name = name}
    IN IF found = {} THEN NoRoleId ELSE (CHOOSE r \in found : TRUE).id

\* upsert_skill: [raised, skills].  lenient is whether the database stores a
\* row whose role_id is no role's id (no foreign key enforcement); with
\* enforcement the insert raises.
upsert_skill(rs, sk, role_id, name, typ, lenient) ==
    LET n   == StripSpace(name)
        t   == NormalType(typ)
        row == [role_id |-> role_id, name |-> n, type |-> t]
    IN IF n = <<>> THEN [raised |-> "ValueError", skills |-> sk]
       ELSE IF t \notin SkillTypes THEN [raised |-> "ValueError", skills |-> sk]
       ELSE IF row \in sk THEN [raised |-> "", skills |-> sk]
       ELSE IF role_id \notin RoleIds(rs) /\ ~lenient
       THEN [raised |-> "IntegrityError", skills |-> sk]
       ELSE [raised |-> "", skills |-> sk \cup {row}]

\* delete_skill: [skills, n]
delete_skill(sk, role_id, name, typ) ==
    LET gone == {k \in sk : /\ k.role_id = role_id
                            /\ k.name = StripSpace(name)
                            /\ k.type = NormalType(typ)}
    IN [skills |-> sk \ gone, n |-> Cardinality(gone)]

\* the upsert_skill calls of seed_skills_from_dict for one bucket, in the
\* order of sorted(set(...))
SkillCalls(role_name, typ, names) ==
    [i \in 1..Len(names) |->
        [call |-> "upsert_skill", role |-> role_name, name |-> names[i], typ |-> typ]]

\* the calls seed_skills_from_dict makes for a dictionary, given as the
\* sequence of its items <<role_name, buckets>>
RECURSIVE SeedCalls(_)
SeedCalls(skill_db) ==
    IF skill_db = <<>> THEN <<>>
    ELSE LET role_name == Head(skill_db)[1]
             buckets   == Head(skill_db)[2]
         IN <<[call |-> "upsert_role", role |-> role_name]>>
            \o SkillCalls(role_name, "core", Sorted(buckets.core))
            \o SkillCalls(role_name, "tools", Sorted(buckets.tools))
            \o SkillCalls(role_name, "soft", Sorted(buckets.soft))
            \o SeedCalls(Tail(skill_db))

\* the calls run one after the other, each committing on its own; the first
\* exception ends the run
RECURSIVE RunCalls(_, _, _)
RunCalls(rs, sk, calls) ==
    IF calls = <<>> THEN [raised |-> "", roles |-> rs, skills |-> sk]
    ELSE LET c == Head(calls)
         IN IF c.call = "upsert_role"
            THEN LET out == upsert_role(rs, c.role)
                 IN IF out.raised # ""
                    THEN [raised |-> out.raised, roles |-> rs, skills |-> sk]
                    ELSE RunCalls(out.roles, sk, Tail(calls))
            ELSE LET rid == upsert_role(rs, c.role).id
                     out == upsert_skill(rs, sk, rid, c.name, c.typ, FALSE)
                 IN IF out.raised # ""
                    THEN [raised |-> out.raised, roles |-> rs, skills |-> sk]
                    ELSE RunCalls(rs, out.skills, Tail(calls))

\* seed_skills_from_dict: [raised, roles, skills]
seed_skills_from_dict(rs, sk, skill_db) == RunCalls(rs, sk, SeedCalls(skill_db))

\* "Python" and " python": a skill name as an administrator may type it
PythonCap == <<"P","y","t","h","o","n">>
PaddedPython == <<" ","p","y","t","h","o","n">>

AdminRoleNames == {DefaultRole, AnalystRole, PaddedAnalystRole, ""}
AdminSkillNames == {sk_python, PythonCap, PaddedPython, NoText}
AdminTypes == {"core", " Tools", "soft", "other"}

\* dictionaries given to seed_skills_from_dict, as sequences of their items
SeedAnalyst ==
    << <<AnalystRole, [core |-> {PythonCap}, tools |-> {sk_python},
                       soft |-> {}]>> >>
SeedBoth ==
    << <<DefaultRole, [core |-> {PaddedPython}, tools |-> {}, soft |-> {}]>>,
       <<PaddedAnalystRole, [core |-> {}, tools |-> {NoText, PythonCap},
                             soft |-> {sk_python}]>> >>
SeedDicts == {SeedAnalyst, SeedBoth}

\* skill rows the directory holds at most
MaxSkillRows == 2

\* streamlit_app.py 346, 350, 464: the role name passed where upsert_skill
\* takes a role id; as an integer it is no role's id
NameAsRoleId == 0

DirInit ==
    /\ roles = {} /\ skills = {}
    /\ sc = ScoreIdle
    /\ uploads = <<>> /\ candidates = {} /\ req = <<>> /\ started = 0
    /\ jobs = NoJobs /\ adm = NoCall

\* the tables after an administration step, whether it raised, and the role
\* id an Add Role got from upsert_role
DirStep(op, rs, sk, raised, id) ==
    /\ Cardinality(sk) <= MaxSkillRows
    /\ roles' = rs /\ skills' = sk
    /\ adm' = [op |-> op, raised |-> raised, id |-> id]
    /\ UNCHANGED <<sc, uploads, candidates, req, started, jobs>>

\* app.py 289-295, streamlit_app.py 434-444: Add Role
AddRole ==
    \E name \in AdminRoleNames :
       LET out == upsert_role(roles, StripRoleName(name))
       IN IF StripRoleName(name) = ""
          THEN DirStep("add_role", roles, skills, "rejected", NoRoleId)
          ELSE DirStep("add_role", out.roles, skills, out.raised, out.id)

\* app.py 297-308: admin_add_skill for one submitted form
admin_add_skill(role_name, typ, name) ==
    LET rn    == StripRoleName(role_name)
        known == get_role_id_by_name(roles, rn)
        role  == upsert_role(roles, rn)
        rs    == IF known # NoRoleId THEN roles ELSE role.roles
        rid   == IF known # NoRoleId THEN known ELSE role.id
        out   == upsert_skill(rs, skills, rid, StripSpace(name), NormalType(typ),
                              FALSE)
    IN IF rn = "" \/ StripSpace(name) = <<>>
       THEN DirStep("admin_add_skill", roles, skills, "rejected", NoRoleId)
       ELSE DirStep("admin_add_skill", rs, out.skills, out.raised, NoRoleId)

AdminAddSkill ==
    \E role_name \in AdminRoleNames, typ \in AdminTypes, name \in AdminSkillNames :
       admin_add_skill(role_name, typ, name)

\* app.py 310-319: admin_remove_skill for one submitted form
admin_remove_skill(role_name, typ, name) ==
    LET rid == get_role_id_by_name(roles, StripRoleName(role_name))
    IN IF rid = NoRoleId
       THEN DirStep("admin_remove_skill", roles, skills, "rejected", NoRoleId)
       ELSE DirStep("admin_remove_skill", roles,
                    delete_skill(skills, rid, StripSpace(name), NormalType(typ)).skills,
                    "", NoRoleId)

AdminRemoveSkill ==
    \E role_name \in AdminRoleNames, typ \in AdminTypes, name \in AdminSkillNames :
       admin_remove_skill(role_name, typ, name)

\* streamlit_app.py 451-469: Add Skill to Role; the selected role's name goes
\* to upsert_skill as its role_id
StreamlitAddSkill ==
    \E r \in roles, typ \in SkillTypes, name \in AdminSkillNames, lenient \in BOOLEAN :
       LET out == upsert_skill(roles, skills, NameAsRoleId, StripSpace(name), typ, lenient)
       IN IF StripSpace(name) = <<>>
          THEN DirStep("st_add_skill", roles, skills, "rejected", NoRoleId)
          ELSE DirStep("st_add_skill", roles, out.skills, out.raised, NoRoleId)

\* streamlit_app.py 339-353: Save role preset; upsert_role, then the preset's
\* technical skills as tools and its soft skills as soft, under one try
StreamlitSavePreset ==
    \E name \in AdminRoleNames \ {""}, tech \in {NoText, sk_python},
       soft \in {NoText, PythonCap}, lenient \in BOOLEAN :
       LET role  == upsert_role(roles, name)
           first == IF tech = NoText THEN [raised |-> "", skills |-> skills]
                    ELSE upsert_skill(role.roles, skills, NameAsRoleId, tech, "tools",
                                      lenient)
           then  == IF first.raised # "" \/ soft = NoText THEN first
                    ELSE upsert_skill(role.roles, first.skills, NameAsRoleId, soft,
                                      "soft", lenient)
       IN DirStep("st_save_preset", role.roles, then.skills, then.raised, NoRoleId)

\* seed_skills.py: seed_skills_from_dict(SKILL_DB)
Seed ==
    \E d \in SeedDicts :
       LET out == seed_skills_from_dict(roles, skills, d)
       IN DirStep("seed", out.roles, out.skills, out.raised, NoRoleId)

DirNext ==
    \/ AddRole \/ AdminAddSkill \/ AdminRemoveSkill
    \/ StreamlitAddSkill \/ StreamlitSavePreset \/ Seed

SpecDir == DirInit /\ [][DirNext]_vars

(***************************************************************************)
(* Properties of the directory administration (under SpecDir).             *)
(***************************************************************************)
\* the sets get_role_skills_dict returns for a role of the directory
BucketsOf(role_name) == get_role_skills_dict(role_name, roles, skills, TRUE).value

\* C16: every skill name in the core, tools and soft sets that
\* get_role_skills_dict returns is lowercase, whatever administration
\* operations came before.
C16_DirectoryNamesLowercase ==
    \A r \in roles : \A typ \in SkillTypes :
        \A n \in BucketsOf(r.name)[typ] : n = LowerText(n)

\* C17: the core, tools and soft sets that get_role_skills_dict returns for
\* a role are pairwise disjoint, whatever upsert_skill and delete_skill
\* operations came before.
C17_BucketsDisjoint ==
    \A r \in roles :
        /\ BucketsOf(r.name).core \cap BucketsOf(r.name).tools = {}
        /\ BucketsOf(r.name).core \cap BucketsOf(r.name).soft = {}
        /\ BucketsOf(r.name).tools \cap BucketsOf(r.name).soft = {}

UniqueRoleNames(rs) == \A r1, r2 \in rs : r1.name = r2.name => r1 = r2

\* C18: from every state of the directory, seeding a dictionary a second
\* time changes nothing: the roles and the skills are those the first run
\* left and the run ends as the first did; no role name is held twice; and
\* upsert_role on a name that exists returns that role's id and adds nothing.
C18_SeedIsRerunnable ==
    /\ UniqueRoleNames(roles)
    /\ \A d \in SeedDicts :
          LET once  == seed_skills_from_dict(roles, skills, d)
              twice == seed_skills_from_dict(once.roles, once.skills, d)
          IN /\ twice.roles = once.roles
             /\ twice.skills = once.skills
             /\ twice.raised = once.raised
             /\ UniqueRoleNames(once.roles)
    /\ \A name \in AdminRoleNames \ {""} :
          LET first == upsert_role(roles, name)
              again == upsert_role(first.roles, name)
          IN /\ again.id = first.id /\ again.roles = first.roles
             /\ \A r \in roles : r.name = StripRoleName(name)
                                   => first.id = r.id /\ first.roles = roles

\* a dictionary has been seeded without error over a directory that already
\* held another role: its role and its skill rows are there, so a second run
\* finds every one of them
C18_Witness ==
    /\ adm.op = "seed" /\ adm.raised = ""
    /\ Cardinality(roles) = 2
    /\ \E r \in roles : r.name = AnalystRole /\ r.id = 2
    /\ \E k \in skills : k.name = PythonCap /\ k.role_id = 2 /\ k.type = "core"
    /\ \E k \in skills : k.name = sk_python /\ k.role_id = 2 /\ k.type = "tools"


\* C30: whatever role and skill actions of the Flask admin routes and the
\* Streamlit pages came before, every stored skill row has the id of an
\* existing role as its role_id and one of core, tools, soft as its type.
C30_SkillRowsValid ==
    \A k \in skills : k.role_id \in RoleIds(roles) /\ k.type \in SkillTypes

\* what holds: the type of every row is one of the three, and the rows the
\* Flask routes and the seeding write have the id of an existing role
SkillTypesValid == \A k \in skills : k.type \in SkillTypes

FlaskRowsValid ==
    [][adm'.op \in {"add_role", "admin_add_skill", "admin_remove_skill", "seed"}
          => \A k \in skills' \ skills : k.role_id \in RoleIds(roles')]_vars

(***************************************************************************)
(* db_mysql.py, db_cache.py: add_job_description.  jobs.mysql and          *)
(* jobs.sqlite are the job_descriptions tables of the two layers, rows     *)
(* [id, name, description]; jobs.seq is the largest id the AUTOINCREMENT   *)
(* column of db_cache.py has given out.                                    *)
(***************************************************************************)
Layers == {"mysql", "sqlite"}

JdRowsNamed(table, name) == {r \in table : r.name = name}

\* db_mysql.py 111-123: one_or_none by name; the row found gets the
\* description, a row not found is added with the next id: [table, id]
mysql_add_job_description(table, name, description) ==
    IF JdRowsNamed(table, name) # {}
    THEN LET jd == CHOOSE r \in table : r.name = name
         IN [table |-> (table \ {jd}) \cup {[jd EXCEPT !.description = description]},
             id |-> jd.id]
    ELSE [table |-> table \cup {[id |-> Cardinality(table) + 1, name |-> name,
                                 description |-> description]},
          id |-> Cardinality(table) + 1]

\* db_cache.py 71-84: INSERT OR REPLACE on the UNIQUE name removes the row
\* of that name and inserts a row, whose id is the next of the AUTOINCREMENT
\* sequence; the id is then selected by name: [table, seq, id]
sqlite_add_job_description(table, seq, name, description) ==
    [table |-> (table \ JdRowsNamed(table, name))
                  \cup {[id |-> seq + 1, name |-> name, description |-> description]},
     seq |-> seq + 1,
     id |-> seq + 1]

JdNames == {"Backend Engineer", "Data Analyst JD"}
JdDescriptions == {JdA, JdB}

\* ids the AUTOINCREMENT sequence of db_cache.py gives out at most
MaxJdIds == 3

JobsInit ==
    /\ roles = {} /\ skills = {}
    /\ sc = ScoreIdle
    /\ uploads = <<>> /\ candidates = {} /\ req = <<>> /\ started = 0
    /\ jobs = NoJobs /\ adm = NoCall

\* db_mysql.py 111-123, called by app.py 274 and streamlit_app.py 358
MysqlAddJobDescription ==
    \E name \in JdNames, description \in JdDescriptions :
       LET out == mysql_add_job_description(jobs.mysql, name, description)
       IN /\ jobs' = [jobs EXCEPT !.mysql = out.table]
          /\ adm' = [op |-> "add_job_description", layer |-> "mysql", name |-> name,
                     description |-> description, id |-> out.id]
          /\ UNCHANGED <<roles, skills, sc, uploads, candidates, req, started>>

\* db_cache.py 71-84
SqliteAddJobDescription ==
    \E name \in JdNames, description \in JdDescriptions :
       LET out == sqlite_add_job_description(jobs.sqlite, jobs.seq, name, description)
       IN /\ jobs.seq < MaxJdIds
          /\ jobs' = [jobs EXCEPT !.sqlite = out.table, !.seq = out.seq]
          /\ adm' = [op |-> "add_job_description", layer |-> "sqlite", name |-> name,
                     description |-> description, id |-> out.id]
          /\ UNCHANGED <<roles, skills, sc, uploads, candidates, req, started>>

JobsNext == MysqlAddJobDescription \/ SqliteAddJobDescription

SpecJobs == JobsInit /\ [][JobsNext]_vars

(***************************************************************************)
(* Properties of add_job_description (under SpecJobs).                     *)
(***************************************************************************)
\* the table of a layer holds at most one job description per name, and
\* after a call on that layer the row of the name has the description given
\* and the id returned
JdTableRight(layer) ==
    /\ \A r1, r2 \in jobs[layer] : r1.name = r2.name => r1 = r2
    /\ (adm.op = "add_job_description" /\ adm.layer = layer) =>
          \E r \in jobs[layer] : /\ r.name = adm.name
                                 /\ r.description = adm.description
                                 /\ r.id = adm.id

\* a step leaves every job description of a layer its id
JdIdsKept(layer) ==
    \A r \in jobs[layer] : \E r2 \in jobs'[layer] : r2.name = r.name /\ r2.id = r.id

\* C19: in db_mysql.py and in db_cache.py, after any calls of
\* add_job_description there is at most one job description per name, with
\* the description last given and the id returned, and a call on a name
\* that exists keeps the id of its job description.
C19_AddOrUpdateKeepsId ==
    /\ [](\A layer \in Layers : JdTableRight(layer))
    /\ [][\A layer \in Layers : JdIdsKept(layer)]_vars

\* what db_mysql.py alone does
MysqlAddOrUpdateKeepsId ==
    /\ [](JdTableRight("mysql"))
    /\ [][JdIdsKept("mysql")]_vars

(***************************************************************************)
(* analyse_pdf.py: extract_tokens on its own.  A caller tokenizes a text   *)
(* (or None) and then tokenizes the space-joined tokens again.             *)
(***************************************************************************)
tok_cpp == <<"c","+","+">>
tok_csharp == <<"c","#">>
tok_dotnet == <<".","n","e","t">>

\* the pieces the tokenized texts are made of: the three technology names,
\* a stopword, an upper-case word, "node.js", a space, a dot and a dash
Pieces ==
    {tok_cpp, tok_csharp, tok_dotnet, <<"t","h","e">>, <<"S","Q","L">>,
     <<"n","o","d","e",".","j","s">>, <<" ">>, <<".">>, <<"-">>}

\* pieces a text is made of at most
MaxPieces == 3

RECURSIVE TextsOf(_)
TextsOf(n) ==
    IF n = 0 THEN {<<>>}
    ELSE TextsOf(n - 1) \cup {t \o q : t \in TextsOf(n - 1), q \in Pieces}

\* the arguments of extract_tokens: None, or a text
TokInputs == {[null |-> TRUE, text |-> <<>>]}
                \cup {[null |-> FALSE, text |-> t] : t \in TextsOf(MaxPieces)}

\* line 25: text or ""
OrEmpty(in) == IF in.null THEN <<>> ELSE in.text

\* ' '.join(list)
RECURSIVE JoinSpace(_)
JoinSpace(list) ==
    IF list = <<>> THEN <<>>
    ELSE IF Len(list) = 1 THEN list[1]
    ELSE list[1] \o <<" ">> \o JoinSpace(Tail(list))

\* the orders in which a set may be iterated
Orders(S) ==
    {o \in [1..Cardinality(S) -> S] : \A i, j \in DOMAIN o : o[i] = o[j] => i = j}

TokInit ==
    /\ roles = {} /\ skills = {}
    /\ \E in \in TokInputs : sc = [phase |-> "text", in |-> in]
    /\ uploads = <<>> /\ candidates = {} /\ req = <<>> /\ started = 0
    /\ jobs = NoJobs /\ adm = NoCall

\* extract_tokens(text)
Tokenize ==
    /\ sc.phase = "text"
    /\ sc' = [phase |-> "tokens", in |-> sc.in, toks |-> extract_tokens(OrEmpty(sc.in))]
    /\ UNCHANGED <<roles, skills, uploads, candidates, req, started, jobs, adm>>

\* extract_tokens(" ".join(tokens)), the set iterated in any order
Retokenize ==
    /\ sc.phase = "tokens"
    /\ \E o \in Orders(sc.toks) :
          sc' = [phase |-> "again", in |-> sc.in, toks |-> sc.toks,
                 joined |-> JoinSpace(o), again |-> extract_tokens(JoinSpace(o))]
    /\ UNCHANGED <<roles, skills, uploads, candidates, req, started, jobs, adm>>

TokNext == Tokenize \/ Retokenize

SpecTok == TokInit /\ [][TokNext]_vars

(***************************************************************************)
(* Properties of extract_tokens (under SpecTok).                           *)
(***************************************************************************)
\* str.split(): the whitespace-delimited words of a text
RECURSIVE WordsAcc(_, _)
WordsAcc(t, cur) ==
    IF t = <<>> THEN (IF cur = <<>> THEN {} ELSE {cur})
    ELSE IF IsSpace(Head(t))
         THEN (IF cur = <<>> THEN {} ELSE {cur}) \cup WordsAcc(Tail(t), <<>>)
         ELSE WordsAcc(Tail(t), Append(cur, Head(t)))

WordsOf(t) == WordsAcc(t, <<>>)

Tokenized == sc.phase \in {"tokens", "again"}

\* the token w, where it is a word of the text, is in the returned set
WordKept(w) == (Tokenized /\ w \in WordsOf(OrEmpty(sc.in))) => w \in sc.toks

\* C21: for a text in which c++, c# or .net is a whitespace-delimited word,
\* the set extract_tokens returns contains that token as written.
C21_TechTokensPreserved == WordKept(tok_cpp) /\ WordKept(tok_csharp) /\ WordKept(tok_dotnet)

\* what holds of c++ and c#
CppAndCsharpPreserved == WordKept(tok_cpp) /\ WordKept(tok_csharp)

\* C22: the set extract_tokens returns, for any text and for None, holds
\* neither the empty string nor a stopword.
C22_NoEmptyTokenNoStopword ==
    Tokenized => (<<>> \notin sc.toks /\ sc.toks \cap STOPWORDS = {})

\* what holds: no stopword, and nothing at all for the empty text and None
NoStopwordAndEmptyInputGivesNone ==
    Tokenized => /\ sc.toks \cap STOPWORDS = {}
                 /\ OrEmpty(sc.in) = <<>> => sc.toks = {}

\* C23: tokenizing the space-joined tokens of extract_tokens(text) gives the
\* set extract_tokens(text) gave.
C23_TokenizerIdempotent == sc.phase = "again" => sc.again = sc.toks

\* what holds: idempotence for the texts whose tokens are all non-empty
IdempotentWithoutEmptyToken ==
    (sc.phase = "again" /\ <<>> \notin sc.toks) => sc.again = sc.toks

(***************************************************************************)
(* Uploads and directory administration together: upload requests of the   *)
(* Flask application, one at a time and with no failing call, between the  *)
(* admin routes that add and remove skills.                                *)
(***************************************************************************)
\* app.py 83-127 for one uploaded file, from the saved file to the result:
\* [result, table], the result as the request record at "done"
IndexUpload(table, rs, sk, filename, content, role, jd) ==
    LET resume_content == PdfText(content)
        analysis == analyse_resume_st(resume_content, jd, role, rs, sk,
                                      HandlerEnv(resume_content, jd, TRUE))
        r   == [IdleRequest EXCEPT !.pc = "lookup", !.app = "flask",
                   !.filename = filename, !.content = content, !.role = role,
                   !.jd = jd, !.resume_hash = compute_sha256(content),
                   !.resume_content = resume_content, !.analysis = analysis]
        got == get_cached_score(table, r.resume_hash, analysis.jd_hash, role,
                                MODEL_VERSION)
    IN IF ~got.none
       THEN [result |-> OnHit(r, got.score), table |-> table]
       ELSE [result |-> [r EXCEPT !.pc = "done", !.cached = FALSE],
             table  |-> SaveScoreCommit(table, FALSE, HandlerRow(r)).table]

UploadInit ==
    /\ roles = {} /\ skills = {}
    /\ sc = ScoreIdle
    /\ uploads = [f \in Filenames |-> NoFile]
    /\ candidates = {}
    /\ req = [h \in Handlers |-> IdleRequest]
    /\ started = 0
    /\ jobs = NoJobs /\ adm = NoCall

\* the uploaded file of these requests
UploadContents == {"pdfA"}

\* a POST to index with one PDF; what it leaves behind is the saved file and
\* the cache
UploadRequest ==
    \E content \in UploadContents, role \in HandlerRoles, jd \in HandlerJds :
       LET out == IndexUpload(candidates, roles, skills, "cv.pdf", content, role, jd)
       IN /\ uploads' = [uploads EXCEPT !["cv.pdf"] = content]
          /\ candidates' = out.table
          /\ adm' = [op |-> "upload", raised |-> "", id |-> NoRoleId]
          /\ UNCHANGED <<roles, skills, sc, req, started, jobs>>

\* the forms the administrator submits between the uploads: a skill of the
\* resume or of the job description, for the default or the other role
UploadSkillNames == {sk_python, sk_cpp}
UploadSkillTypes == {"core", "soft"}
UploadRoleNames == {DefaultRole, AnalystRole}

UploadAddSkill ==
    \E role_name \in UploadRoleNames, typ \in UploadSkillTypes, name \in UploadSkillNames :
       admin_add_skill(role_name, typ, name)

UploadRemoveSkill ==
    \E role_name \in UploadRoleNames, typ \in UploadSkillTypes, name \in UploadSkillNames :
       admin_remove_skill(role_name, typ, name)

UploadNext == UploadRequest \/ UploadAddSkill \/ UploadRemoveSkill

SpecUpload == UploadInit /\ [][UploadNext]_vars

(***************************************************************************)
(* Properties of the cache under administration (under SpecUpload).        *)
(***************************************************************************)
\* the overall the scorer computes now for the resume, job description and
\* role of a cache row
FreshOverall(row) ==
    LET resume_content == PdfText(row.resume_hash[2])
    IN analyse_resume_st(resume_content, row.jd_hash[2], row.role, roles, skills,
                         HandlerEnv(resume_content, row.jd_hash[2], TRUE)).overall

\* C25: whatever analyses and skill additions and removals came before,
\* every cached overall is the overall the scorer computes now for the same
\* resume, job description, role and model version.
C25_CacheCoherent == \A row \in candidates : row.score = FreshOverall(row)

\* what holds: a row is coherent when it is written
CoherentWhenWritten ==
    [][\A row \in candidates' \ candidates :
          row.score = analyse_resume_st(PdfText(row.resume_hash[2]), row.jd_hash[2],
                         row.role, roles, skills,
                         HandlerEnv(PdfText(row.resume_hash[2]), row.jd_hash[2],
                                    TRUE)).overall]_vars

(***************************************************************************)
(* db_mysql.py and db_cache.py: the cache functions of the two layers,     *)
(* called with the same arguments.  Here candidates.mysql is the           *)
(* candidates table of db_mysql.py and candidates.sqlite the CANDIDATES    *)
(* table of db_cache.py.                                                   *)
(***************************************************************************)
\* db_mysql.py 144-173 in one session: the row under the key is updated, or
\* the row is added
mysql_save_score(table, row) ==
    SaveScoreCommit(table, RowsAt(table, KeyOf(row)) # {}, row).table

\* db_cache.py 114-133: INSERT OR REPLACE on the primary key
sqlite_save_score(table, row) == (table \ RowsAt(table, KeyOf(row))) \cup {row}

\* db_cache.py 103-112: the score of the row under the key, or None
sqlite_get_cached_score(table, resume_hash, jd_hash, role, model_version) ==
    LET found == {row \in table : /\ row.resume_hash = resume_hash
                                  /\ row.jd_hash = jd_hash
                                  /\ row.role = role
                                  /\ row.model_version = model_version}
    IN IF found = {} THEN [none |-> TRUE, score |-> 0]
       ELSE [none |-> FALSE, score |-> (CHOOSE row \in found : TRUE).score]

\* db_cache.py 143-150: by the three values when jd_hash and role are both
\* truthy, else by resume_hash alone
sqlite_delete_cached(table, resume_hash, jd_hash, role) ==
    IF jd_hash # NoHash /\ role # ""
    THEN table \ {row \in table : /\ row.resume_hash = resume_hash
                                  /\ row.jd_hash = jd_hash
                                  /\ row.role = role}
    ELSE table \ {row \in table : row.resume_hash = resume_hash}

\* the arguments of the calls
CacheResumeHashes == {compute_sha256("pdfA")}
CacheJdHashes == {jd_hash_func(clean_text(JdA)), jd_hash_func(clean_text(JdB))}
CacheRoles == {"", AnalystRole}
CacheScores == {0, 6900}

CacheRow(resume_hash, jd_hash, role, score) ==
    [resume_hash |-> resume_hash, jd_hash |-> jd_hash, role |-> role,
     model_version |-> MODEL_VERSION, score |-> score,
     jd_id |-> "None", source_filename |-> "cv.pdf"]

CacheInit ==
    /\ roles = {} /\ skills = {}
    /\ sc = ScoreIdle
    /\ uploads = <<>> /\ req = <<>> /\ started = 0
    /\ candidates = [mysql |-> {}, sqlite |-> {}]
    /\ jobs = NoJobs /\ adm = NoCall

\* save_score in both layers
CacheSave ==
    \E h \in CacheResumeHashes, j \in CacheJdHashes, role \in CacheRoles,
       score \in CacheScores :
       /\ candidates' =
             [mysql  |-> mysql_save_score(candidates.mysql, CacheRow(h, j, role, score)),
              sqlite |-> sqlite_save_score(candidates.sqlite, CacheRow(h, j, role, score))]
       /\ adm' = [op |-> "save_score"]
       /\ UNCHANGED <<roles, skills, sc, uploads, req, started, jobs>>

\* get_cached_score in both layers; adm keeps the two answers
CacheGet ==
    \E h \in CacheResumeHashes, j \in CacheJdHashes, role \in CacheRoles :
       /\ adm' = [op |-> "get_cached_score",
                  mysql  |-> get_cached_score(candidates.mysql, h, j, role,
                                              MODEL_VERSION),
                  sqlite |-> sqlite_get_cached_score(candidates.sqlite, h, j, role,
                                                     MODEL_VERSION)]
       /\ UNCHANGED <<roles, skills, sc, uploads, candidates, req, started, jobs>>

\* delete_cached in both layers, jd_hash and role each given or not
CacheDelete ==
    \E h \in CacheResumeHashes, j \in CacheJdHashes \cup {NoHash},
       role \in CacheRoles :
       /\ candidates' =
             [mysql  |-> delete_cached(candidates.mysql, h, j, role),
              sqlite |-> sqlite_delete_cached(candidates.sqlite, h, j, role)]
       /\ adm' = [op |-> "delete_cached", jd_hash |-> j, role |-> role]
       /\ UNCHANGED <<roles, skills, sc, uploads, req, started, jobs>>

CacheNext == CacheSave \/ CacheGet \/ CacheDelete

SpecCache == CacheInit /\ [][CacheNext]_vars

(***************************************************************************)
(* Properties of the two cache layers (under SpecCache).                   *)
(***************************************************************************)
\* C29: after the same save_score, get_cached_score and delete_cached calls
\* the SQLite layer and the MySQL layer hold the same entries, and each
\* get_cached_score is answered the same by both.
C29_LayersEquivalent ==
    /\ candidates.mysql = candidates.sqlite
    /\ adm.op = "get_cached_score" => adm.mysql = adm.sqlite

\* a delete_cached with one of jd_hash and role given and the other not
PartialDelete(call) ==
    call.op = "delete_cached" /\ ((call.jd_hash = NoHash) # (call.role = ""))

\* what holds: no call but a delete_cached with only one of jd_hash and role
\* makes equal tables differ, and equal tables answer the same
LayersEquivalentButPartialDelete ==
    /\ [][(candidates.mysql = candidates.sqlite /\ ~PartialDelete(adm'))
             => candidates'.mysql = candidates'.sqlite]_vars
    /\ [][(candidates.mysql = candidates.sqlite /\ adm'.op = "get_cached_score")
             => adm'.mysql = adm'.sqlite]_vars

====
